---- MODULE Spec2Model ----
(***************************************************************************)
(* Startup and request dispatch of the Express entry points of the         *)
(* repository:                                                             *)
(*   "index"   src/index.js            GET /, catch-all 404, direct listen *)
(*   "nocatch" src/unnamed/part_003    GET /, direct listen                *)
(*   "auth"    src/unnamed/part_002    GET /, mount of `auth`, listen      *)
(*   "users"   src/unnamed/part_001    user service, listen gated on sync  *)
(* Express 4 routing is assumed: layers are tried in registration order,   *)
(* a route answers HEAD with its GET handler, a response to HEAD carries   *)
(* no body, and a request no layer answers gets the default 404 page.      *)
(* require("./route/authRoute") is assumed to resolve.                     *)
(* The handlers of index.js, part_002 and part_003 answer inside the call  *)
(* of the handler; the controllers of the user service are async: each     *)
(* awaits its store call, and other requests run while it waits.           *)
(***************************************************************************)
EXTENDS Integers, Sequences, FiniteSets, Bags, TLC

VARIABLES variant, env, pc, stack, conn, syncAttempts, ports, log,
          users, nextId, inflight, accepted, deleted

\* inflight: the requests on the open connections, from the call of the
\*           handler until the client has taken the response;
\* accepted: history, a request has been accepted on the listener;
\* deleted:  history, the ids of the rows removed by a DELETE that has been
\*           answered
vars == <<variant, env, pc, stack, conn, syncAttempts, ports, log,
          users, nextId, inflight, accepted, deleted>>

\* ------------------------------------------------------------------ bounds
\* number of users the model lets POST /users create
MaxUsers == 2

\* ------------------------------------------------------- JavaScript values
Undefined == [t |-> "undefined"]

Str(digits) == [t |-> "string", s |-> digits]

Num(n) == [t |-> "number", n |-> n]

\* numeric value of a string of decimal digits
RECURSIVE ToNumber(_)
ToNumber(digits) ==
  IF Len(digits) = 0 THEN 0
  ELSE 10 * ToNumber(SubSeq(digits, 1, Len(digits) - 1)) + digits[Len(digits)]

Truthy(v) ==
  CASE v.t = "undefined" -> FALSE
    [] v.t = "string" -> Len(v.s) > 0
    [] v.t = "number" -> v.n # 0

\* a || b
Or(a, b) == IF Truthy(a) THEN a ELSE b

\* ---------------------------------------------------------- configuration
Variants == {"index", "nocatch", "auth", "users"}

DirectVariants == {"index", "nocatch"}

\* values of the port variable of the environment (APP_PORT, PORT)
EnvValues == {Undefined, Str(<<3, 0, 0, 0>>)}

\* ports the operating system may hand out for a bind on port 0
EphemeralPorts == {49152, 49153}

DefaultPort == 5000

AuthPort == 3000

\* const PORT = process.env.PORT || 5000
PORT == Or(env, Num(DefaultPort))

\* first argument of app.listen in each entry point
ListenArg ==
  CASE variant \in DirectVariants -> env
    [] variant = "auth" -> Num(AuthPort)
    [] variant = "users" -> PORT

\* ports a listen(arg) may bind: an absent port or port 0 binds an
\* arbitrary unused port, a numeric string binds its number
ListenPorts(arg) ==
  LET n == CASE arg.t = "undefined" -> 0
             [] arg.t = "string" -> ToNumber(arg.s)
             [] arg.t = "number" -> arg.n
  IN IF n = 0 THEN EphemeralPorts ELSE {n}

\* identifiers bound in the module scope of each entry point
Bindings ==
  CASE variant \in DirectVariants -> {"express", "app", "authRouter"}
    [] variant = "auth" -> {"express", "authRouter", "app", "port"}
    [] variant = "users" -> {"express", "db", "userRoutes", "app", "PORT"}

\* variant of Defined in which the identifier `auth` resolves
DefinedWithAuth(ident) == ident \in Bindings \cup {"auth"}

Defined(ident) == ident \in Bindings

\* ------------------------------------------------------------------ layers
Route(method, path, handler) ==
  [kind |-> "route", method |-> method, path |-> path, handler |-> handler]

Use(path, handler) ==
  [kind |-> "use", method |-> "*", path |-> path, handler |-> handler]

\* routes/userRoutes.js
UserRoutes ==
  << Route("GET", <<>>, "getAllUsers"),
     Route("GET", <<":id">>, "getUserById"),
     Route("POST", <<>>, "createUser"),
     Route("PUT", <<":id">>, "updateUser"),
     Route("DELETE", <<":id">>, "deleteUser") >>

Routers == {"userRoutes", "authRouter"}

RouterStack(h) == IF h = "userRoutes" THEN UserRoutes ELSE <<>>

SegMatches(pat, seg) == pat = ":id" \/ pat = seg

\* a route matches the whole path, a mounted layer a prefix of it
PathMatches(l, path) ==
  IF l.path = <<"*">> THEN TRUE
  ELSE /\ IF l.kind = "route" THEN Len(path) = Len(l.path)
                              ELSE Len(path) >= Len(l.path)
       /\ \A k \in 1..Len(l.path) : SegMatches(l.path[k], path[k])

\* a route without a HEAD handler answers HEAD with its GET handler
MethodMatches(l, method) ==
  \/ l.kind = "use"
  \/ l.method = method
  \/ (method = "HEAD" /\ l.method = "GET")

LayerMatches(l, method, path) ==
  PathMatches(l, path) /\ MethodMatches(l, method)

Strip(path, n) == SubSeq(path, n + 1, Len(path))

\* the handler that answers a request: layers are tried in registration
\* order; express.json() passes on, a mounted router passes on when none of
\* its routes matches, and the default 404 answers when the stack is used up
RECURSIVE Walk(_, _, _, _)
Walk(stk, i, method, path) ==
  IF i > Len(stk) THEN [handler |-> "finalhandler", path |-> path]
  ELSE LET l == stk[i] IN
    IF ~LayerMatches(l, method, path) THEN Walk(stk, i + 1, method, path)
    ELSE IF l.handler = "jsonParser" THEN Walk(stk, i + 1, method, path)
    ELSE IF l.handler \in Routers THEN
      LET r == Walk(RouterStack(l.handler), 1, method, Strip(path, Len(l.path)))
      IN IF r.handler = "finalhandler" THEN Walk(stk, i + 1, method, path)
         ELSE r
    ELSE [handler |-> l.handler, path |-> path]

\* --------------------------------------------------------------- responses
Empty == [empty |-> TRUE]

Null == [null |-> TRUE]

Resp(status, ctype, body, by) ==
  [status |-> status, ctype |-> ctype, body |-> body, by |-> by]

NoResp == Resp(0, "none", Empty, "none")

NotFoundBody == [status |-> "Failed", message |-> "Route Not Found"]

\* variant of welcome that answers with a JSON envelope
welcomeJson ==
  Resp(200, "application/json",
       [status |-> "success", message |-> "Welcome to the server"], "welcome")

\* res.send("Welcome to the server")
welcome == Resp(200, "text/html", [text |-> "Welcome to the server"], "welcome")

\* res.status(404).json({status:"Failed", message:"Route Not Found"})
notFound == Resp(404, "application/json", NotFoundBody, "notFound")

\* the framework's answer to a request no layer answered
finalhandler(method, path) ==
  Resp(404, "text/html", [cannot |-> method, path |-> path], "finalhandler")

\* ------------------------------------------------------------ user service
IdStr == <<"1", "2", "3", "4", "5">>

IdSegs == {IdStr[i] : i \in 1..MaxUsers}

ParseId(seg) == CHOOSE i \in 1..Len(IdStr) : IdStr[i] = seg

Names == {"alice", "bob"}

\* db.User.findByPk(id)
findByPk(table, id) ==
  IF \E u \in table : u.id = id THEN CHOOSE u \in table : u.id = id ELSE Null

\* db.User.update(data, {where: {id}})
update(table, id, data) ==
  {IF u.id = id THEN [u EXCEPT !.name = data] ELSE u : u \in table}

\* variant of destroy that removes no row
destroyNothing(table, id) == table

\* db.User.destroy({where: {id}})
destroy(table, id) == {u \in table : u.id # id}

\* db.User.create(data)
create(table, id, data) == table \cup {[id |-> id, name |-> data]}

\* db.User.findAll()
findAll(table) == table

\* each controller, from the value its awaited service call returned to the
\* response it sends
getAllUsers(rows) ==
  Resp(200, "application/json", [rows |-> rows], "getAllUsers")

getUserById(user) ==
  IF user # Null
  THEN Resp(200, "application/json", user, "getUserById")
  ELSE Resp(404, "application/json", [error |-> "User not found"],
            "getUserById")

createUser(user) == Resp(201, "application/json", user, "createUser")

updateUser(user) == Resp(200, "application/json", user, "updateUser")

deleteUser == Resp(204, "none", Empty, "deleteUser")

AsyncHandlers ==
  {"getAllUsers", "getUserById", "createUser", "updateUser", "deleteUser"}

\* ---------------------------------------------------------------- requests
\* the connections clients keep open; each carries one request at a time
Connections == {"c1", "c2"}

Methods == {"GET", "HEAD", "POST", "PUT", "DELETE"}

SitePaths == {<<>>, <<"nope">>}

UserPaths == {<<"users">>} \cup {<<"users", s>> : s \in IdSegs}

\* the requests sent to the server: every method on the paths of the site,
\* the methods of the user API on its paths
Requests ==
  (Methods \X SitePaths) \cup ({"GET", "POST", "PUT", "DELETE"} \X UserPaths)

BodyOf(handler) ==
  IF handler \in {"createUser", "updateUser"} THEN Names ELSE {"none"}

\* a response to HEAD is sent without its body
Sent(method, resp) ==
  IF method = "HEAD" THEN [resp EXCEPT !.body = Empty] ELSE resp

\* the response of a handler that answers without awaiting anything
Dispatch(method, path) ==
  LET h == Walk(stack, 1, method, path).handler
      resp == CASE h = "welcome" -> welcome
                [] h = "notFound" -> notFound
                [] h = "finalhandler" -> finalhandler(method, path)
  IN Sent(method, resp)

\* the value of an awaited call that has not settled
Pending == [pending |-> TRUE]

\* a request on a connection, from the call of its handler on: stage "q1" the
\* first store call of its controller is pending, "q2" the findByPk that
\* updateUser awaits after its update is pending, "done" the last store call
\* has settled and the controller has not resumed, "sent" the response has
\* been sent
InFlight(method, path, data, handler, id, after) ==
  [method |-> method, path |-> path, data |-> data, handler |-> handler,
   id |-> id, stage |-> "q1", result |-> Pending, afterDelete |-> after,
   resp |-> NoResp]

\* the store call a request is waiting for: the table and the id counter it
\* leaves and the value it settles with
Query(r) ==
  CASE r.handler = "getAllUsers" ->
         [table |-> users, nextId |-> nextId, result |-> [rows |-> findAll(users)]]
    [] r.handler = "getUserById" ->
         [table |-> users, nextId |-> nextId, result |-> findByPk(users, r.id)]
    [] r.handler = "createUser" ->
         [table |-> create(users, nextId, r.data), nextId |-> nextId + 1,
          result |-> [id |-> nextId, name |-> r.data]]
    [] r.handler = "updateUser" /\ r.stage = "q1" ->
         [table |-> update(users, r.id, r.data), nextId |-> nextId,
          result |-> Empty]
    [] r.handler = "updateUser" /\ r.stage = "q2" ->
         [table |-> users, nextId |-> nextId, result |-> findByPk(users, r.id)]
    [] r.handler = "deleteUser" ->
         [table |-> destroy(users, r.id), nextId |-> nextId,
          result |-> [count |-> Cardinality({u \in users : u.id = r.id})]]

\* the response a controller sends when its last awaited call has settled
Answer(r) ==
  Sent(r.method,
       CASE r.handler = "getAllUsers" -> getAllUsers(r.result.rows)
         [] r.handler = "getUserById" -> getUserById(r.result)
         [] r.handler = "createUser" -> createUser(r.result)
         [] r.handler = "updateUser" -> updateUser(r.result)
         [] r.handler = "deleteUser" -> deleteUser)

RECURSIVE Copies(_, _)
Copies(S, B) ==
  IF S = {} THEN 0
  ELSE LET r == CHOOSE x \in S : TRUE
       IN CopiesIn(r, B) + Copies(S \ {r}, B)

\* the creates accepted and not yet run by the store
PendingCreates ==
  Copies({r \in BagToSet(inflight) :
            r.handler = "createUser" /\ r.stage = "q1"}, inflight)

\* -------------------------------------------------------------------- Init
Init ==
  /\ variant \in Variants
  /\ env \in EnvValues
  /\ pc = "start"
  /\ stack = <<>>
  /\ conn = "unverified"
  /\ syncAttempts = 0
  /\ ports = {}
  /\ log = <<>>
  /\ users = {}
  /\ nextId = 1
  /\ inflight = EmptyBag
  /\ accepted = FALSE
  /\ deleted = {}

\* ----------------------------------------------------------------- startup
\* app.get("/", (req,res) => res.send("Welcome to the server"))
RegisterRoot ==
  /\ variant \in {"index", "nocatch", "auth"}
  /\ pc = "start"
  /\ stack' = Append(stack, Route("GET", <<>>, "welcome"))
  /\ pc' = IF variant = "nocatch" THEN "routes" ELSE "root"
  /\ UNCHANGED <<variant, env, conn, syncAttempts, ports, log, users, nextId,
                 inflight, accepted, deleted>>

\* variant of RegisterCatchAll that registers the handler for GET only
RegisterCatchAllGetOnly ==
  /\ variant = "index"
  /\ pc = "root"
  /\ stack' = Append(stack, Route("GET", <<"*">>, "notFound"))
  /\ pc' = "routes"
  /\ UNCHANGED <<variant, env, conn, syncAttempts, ports, log, users, nextId,
                 inflight, accepted, deleted>>

\* variant of RegisterCatchAll that puts the handler ahead of the routes
RegisterCatchAllFirst ==
  /\ variant = "index"
  /\ pc = "root"
  /\ stack' = <<Use(<<"*">>, "notFound")>> \o stack
  /\ pc' = "routes"
  /\ UNCHANGED <<variant, env, conn, syncAttempts, ports, log, users, nextId,
                 inflight, accepted, deleted>>

\* app.use("*", (req,res) => res.status(404).json(...))
RegisterCatchAll ==
  /\ variant = "index"
  /\ pc = "root"
  /\ stack' = Append(stack, Use(<<"*">>, "notFound"))
  /\ pc' = "routes"
  /\ UNCHANGED <<variant, env, conn, syncAttempts, ports, log, users, nextId,
                 inflight, accepted, deleted>>

\* app.use("/api/v1/auth", auth): evaluating an unbound identifier throws a
\* ReferenceError, which ends the start of the process
MountAuth ==
  /\ variant = "auth"
  /\ pc = "root"
  /\ IF Defined("auth")
     THEN /\ stack' = Append(stack, Use(<<"api", "v1", "auth">>, "authRouter"))
          /\ pc' = "routes"
     ELSE /\ stack' = stack
          /\ pc' = "crashed"
  /\ UNCHANGED <<variant, env, conn, syncAttempts, ports, log, users, nextId,
                 inflight, accepted, deleted>>

\* app.use(express.json()); app.use('/users', userRoutes)
MountUsers ==
  /\ variant = "users"
  /\ pc = "start"
  /\ stack' = stack \o <<Use(<<>>, "jsonParser"), Use(<<"users">>, "userRoutes")>>
  /\ pc' = "routes"
  /\ UNCHANGED <<variant, env, conn, syncAttempts, ports, log, users, nextId,
                 inflight, accepted, deleted>>

\* app.listen(port, callback) called directly at the end of the script
Listen ==
  /\ variant \in {"index", "nocatch", "auth"}
  /\ pc = "routes"
  /\ \E p \in ListenPorts(ListenArg) : ports' = ports \cup {p}
  /\ pc' = "bound"
  /\ UNCHANGED <<variant, env, stack, conn, syncAttempts, log, users, nextId,
                 inflight, accepted, deleted>>

\* the callback of app.listen
ListenCallback ==
  /\ pc = "bound"
  /\ log' = Append(log, IF variant = "users"
                        THEN [msg |-> "Server running on port ", arg |-> PORT]
                        ELSE [msg |-> "Server listening on port ",
                              arg |-> ListenArg])
  /\ pc' = "serving"
  /\ UNCHANGED <<variant, env, stack, conn, syncAttempts, ports, users, nextId,
                 inflight, accepted, deleted>>

\* variant of CallSync that binds the listener without waiting for sync()
CallSyncListenEagerly ==
  /\ variant = "users"
  /\ pc = "routes"
  /\ syncAttempts' = syncAttempts + 1
  /\ \E p \in ListenPorts(ListenArg) : ports' = ports \cup {p}
  /\ pc' = "verifying"
  /\ UNCHANGED <<variant, env, stack, conn, log, users, nextId,
                 inflight, accepted, deleted>>

\* db.sequelize.sync()
CallSync ==
  /\ variant = "users"
  /\ pc = "routes"
  /\ syncAttempts' = syncAttempts + 1
  /\ pc' = "verifying"
  /\ UNCHANGED <<variant, env, stack, conn, ports, log, users, nextId,
                 inflight, accepted, deleted>>

\* the promise of sync() is fulfilled
SyncResolve ==
  /\ pc = "verifying"
  /\ conn' = "connected"
  /\ pc' = "resolved"
  /\ UNCHANGED <<variant, env, stack, syncAttempts, ports, log, users, nextId,
                 inflight, accepted, deleted>>

\* variant of SyncReject that calls sync() a second time after a rejection
SyncRejectRetry ==
  /\ pc = "verifying"
  /\ IF syncAttempts < 2
     THEN /\ conn' = "unverified"
          /\ syncAttempts' = syncAttempts + 1
          /\ pc' = "verifying"
     ELSE /\ conn' = "failed"
          /\ syncAttempts' = syncAttempts
          /\ pc' = "rejected"
  /\ UNCHANGED <<variant, env, stack, ports, log, users, nextId,
                 inflight, accepted, deleted>>

\* the promise of sync() is rejected
SyncReject ==
  /\ pc = "verifying"
  /\ conn' = "failed"
  /\ pc' = "rejected"
  /\ UNCHANGED <<variant, env, stack, syncAttempts, ports, log, users, nextId,
                 inflight, accepted, deleted>>

\* .then(() => { console.log('Database synced'); app.listen(PORT, ...) })
ThenCallback ==
  /\ pc = "resolved"
  /\ log' = Append(log, [msg |-> "Database synced", arg |-> Undefined])
  /\ \E p \in ListenPorts(ListenArg) : ports' = ports \cup {p}
  /\ pc' = "bound"
  /\ UNCHANGED <<variant, env, stack, conn, syncAttempts, users, nextId,
                 inflight, accepted, deleted>>

\* variant of CatchCallback that logs the error and binds the listener anyway
CatchCallbackListen ==
  /\ pc = "rejected"
  /\ log' = Append(log, [msg |-> "Database connection error:",
                         arg |-> Undefined])
  /\ \E p \in ListenPorts(ListenArg) : ports' = ports \cup {p}
  /\ pc' = "bound"
  /\ UNCHANGED <<variant, env, stack, conn, syncAttempts, users, nextId,
                 inflight, accepted, deleted>>

\* .catch((error) => console.error('Database connection error:', error))
CatchCallback ==
  /\ pc = "rejected"
  /\ log' = Append(log, [msg |-> "Database connection error:",
                         arg |-> Undefined])
  /\ pc' = "aborted"
  /\ UNCHANGED <<variant, env, stack, conn, syncAttempts, ports, users, nextId,
                 inflight, accepted, deleted>>

\* ----------------------------------------------------------------- serving
FreeConnection == BagCardinality(inflight) < Cardinality(Connections)

\* a request routed to a handler that answers inside its call; connections
\* are accepted once the callback of listen has run
HandleRequest ==
  /\ ports # {}
  /\ pc = "serving"
  /\ FreeConnection
  /\ \E req \in Requests :
       LET method == req[1]
           path == req[2]
           h == Walk(stack, 1, method, path).handler
       IN /\ h \notin AsyncHandlers
          /\ inflight' = inflight (+)
               SetToBag({[InFlight(method, path, "none", h, 0, FALSE)
                            EXCEPT !.stage = "sent",
                                   !.resp = Dispatch(method, path)]})
  /\ accepted' = TRUE
  /\ UNCHANGED <<variant, env, pc, stack, conn, syncAttempts, ports, log,
                 users, nextId, deleted>>

\* a request routed to a controller of the user service: the controller calls
\* its service function, which issues the store call, and awaits it
AcceptRequest ==
  /\ ports # {}
  /\ pc = "serving"
  /\ FreeConnection
  /\ \E req \in Requests :
       LET method == req[1]
           path == req[2]
           w == Walk(stack, 1, method, path)
           id == IF Len(w.path) = 1 THEN ParseId(w.path[1]) ELSE 0
       IN /\ w.handler \in AsyncHandlers
          /\ w.handler = "createUser" => nextId + PendingCreates <= MaxUsers
          /\ \E data \in BodyOf(w.handler) :
               inflight' = inflight (+)
                 SetToBag({InFlight(method, path, data, w.handler, id,
                             w.handler = "getUserById" /\ id \in deleted)})
  /\ accepted' = TRUE
  /\ UNCHANGED <<variant, env, pc, stack, conn, syncAttempts, ports, log,
                 users, nextId, deleted>>

\* the store runs a pending call and settles its promise; updateUser, whose
\* update has settled, goes on to getUserById(id), which issues the lookup
StoreExec ==
  /\ \E r \in BagToSet(inflight) :
       /\ r.stage \in {"q1", "q2"}
       /\ LET q == Query(r)
              next == IF r.handler = "updateUser" /\ r.stage = "q1"
                      THEN [r EXCEPT !.stage = "q2"]
                      ELSE [r EXCEPT !.stage = "done", !.result = q.result]
          IN /\ users' = q.table
             /\ nextId' = q.nextId
             /\ inflight' = (inflight (-) SetToBag({r})) (+) SetToBag({next})
  /\ UNCHANGED <<variant, env, pc, stack, conn, syncAttempts, ports, log,
                 accepted, deleted>>

\* a controller resumes after its last await and sends the response
Resume ==
  /\ \E r \in BagToSet(inflight) :
       /\ r.stage = "done"
       /\ inflight' = (inflight (-) SetToBag({r})) (+)
            SetToBag({[r EXCEPT !.stage = "sent", !.result = Pending,
                                !.resp = Answer(r)]})
       /\ deleted' = IF r.handler = "deleteUser" /\ r.result.count > 0
                     THEN deleted \cup {r.id} ELSE deleted
  /\ UNCHANGED <<variant, env, pc, stack, conn, syncAttempts, ports, log,
                 users, nextId, accepted>>

\* the client has taken the response; its connection is free for the next
\* request
Close ==
  /\ \E r \in BagToSet(inflight) :
       /\ r.stage = "sent"
       /\ inflight' = inflight (-) SetToBag({r})
  /\ UNCHANGED <<variant, env, pc, stack, conn, syncAttempts, ports, log,
                 users, nextId, accepted, deleted>>

Next ==
  \/ RegisterRoot
  \/ RegisterCatchAll
  \/ MountAuth
  \/ MountUsers
  \/ Listen
  \/ ListenCallback
  \/ CallSync
  \/ SyncResolve
  \/ SyncReject
  \/ ThenCallback
  \/ CatchCallback
  \/ HandleRequest
  \/ AcceptRequest
  \/ StoreExec
  \/ Resume
  \/ Close

Spec == Init /\ [][Next]_vars

\* ------------------------------------------------------ notions of the claims
Listening == ports # {}

Served == accepted

\* the requests that have been answered and their responses
Answered == {r \in BagToSet(inflight) : r.stage = "sent"}

\* the requests that reach the given stage in this step
Reaching(stage) ==
  {r \in BagToSet(inflight') :
     r.stage = stage /\ CopiesIn(r, inflight') > CopiesIn(r, inflight)}

\* the routes registered for exactly this method and path, at the top level
\* or inside a mounted router
TopRoutes(method, path) ==
  {i \in 1..Len(stack) :
     /\ stack[i].kind = "route"
     /\ stack[i].method = method
     /\ stack[i].path # <<"*">>
     /\ PathMatches(stack[i], path)}

SubRoutes(method, path) ==
  {<<i, j>> \in (1..Len(stack)) \X (1..Len(UserRoutes)) :
     /\ stack[i].handler = "userRoutes"
     /\ PathMatches(stack[i], path)
     /\ UserRoutes[j].method = method
     /\ PathMatches(UserRoutes[j], Strip(path, Len(stack[i].path)))}

RegisteredHandlers(method, path) ==
  {stack[i].handler : i \in TopRoutes(method, path)}
  \cup {UserRoutes[ij[2]].handler : ij \in SubRoutes(method, path)}

Registered(method, path) == RegisteredHandlers(method, path) # {}

\* the layers registered at the top level that match a request
MatchingLayers(method, path) ==
  {i \in 1..Len(stack) : LayerMatches(stack[i], method, path)}

IsUserPath(path) == Len(path) = 2 /\ path[1] = "users" /\ path[2] \in IdSegs

Exists(id) == \E u \in users : u.id = id

ErrorLogs == {i \in 1..Len(log) : log[i].msg = "Database connection error:"}

\* the state of the startup sequence of the entry point that calls sync()
Phase ==
  IF variant # "users" THEN "none"
  ELSE CASE pc \in {"start", "routes"} -> "Idle"
         [] pc = "verifying" -> "Verifying"
         [] pc \in {"resolved", "bound", "serving"} -> "Ready"
         [] pc \in {"rejected", "aborted"} -> "Aborted"

\* ------------------------------------------------------------------------ C1
\* C1 as stated: whenever the listener is bound or a request has been
\* accepted, the verification has completed successfully, in every entry point
C1_AsStated == (Listening \/ Served) => conn = "connected"

\* C1 amended: the entry point that calls sync() binds the listener and accepts
\* requests only after sync() has succeeded; the entry points that call listen
\* directly attempt no verification and are bound while still unverified
C1_GatedOnlyWhereSyncIsCalled ==
  /\ (variant = "users" /\ (Listening \/ Served \/ inflight # EmptyBag)) =>
       conn = "connected"
  /\ (variant \in DirectVariants /\ Listening) =>
       (conn = "unverified" /\ syncAttempts = 0)

C1_Witness ==
  variant = "users" /\ Listening /\ Served /\ conn = "connected"

C3_RegisteredRouteAnswers ==
  /\ \A r \in BagToSet(inflight) :
       Registered(r.method, r.path) =>
         r.handler \in RegisteredHandlers(r.method, r.path)
  /\ \A r \in Answered :
       Registered(r.method, r.path) =>
         /\ r.resp.by \in RegisteredHandlers(r.method, r.path)
         /\ r.resp.by = "welcome" =>
              r.resp = [status |-> 200, ctype |-> "text/html",
                        body |-> [text |-> "Welcome to the server"],
                        by |-> "welcome"]

C3_Witness ==
  \E r \in Answered :
    /\ variant = "index"
    /\ Cardinality(MatchingLayers("GET", <<>>)) = 2
    /\ r.method = "GET"
    /\ r.path = <<>>
    /\ r.resp.by = "welcome"

\* ------------------------------------------------------------------------ C4
\* C4 (for the ports of EnvValues, which listen accepts): once sync() has
\* rejected, the listener is not bound, no port is open
\* and no request is served; the error is logged at most once, and exactly
\* once when the startup has ended in Aborted
C4_RejectionNeverBinds ==
  /\ conn = "failed" =>
       /\ ~Listening
       /\ ~Served
       /\ inflight = EmptyBag
       /\ Phase = "Aborted"
  /\ Cardinality(ErrorLogs) <= 1
  /\ pc = "aborted" => Cardinality(ErrorLogs) = 1
  /\ ErrorLogs # {} => conn = "failed"

C4_Witness ==
  conn = "failed" /\ pc = "aborted" /\ Cardinality(ErrorLogs) = 1

\* ------------------------------------------------------------------------ C5
\* the port an entry point is configured with: the port of the environment,
\* or the default the entry point names
ConfiguredPorts ==
  CASE variant = "auth" -> {AuthPort}
    [] env.t = "string" -> {ToNumber(env.s)}
    [] variant = "users" -> {DefaultPort}
    [] OTHER -> {}

\* C5 as stated: the success message is logged before the listener is bound,
\* and only the configured port (the port of the environment, or the default
\* of the entry point) is ever bound
C5_AsStated ==
  /\ ports \subseteq ConfiguredPorts
  /\ (variant = "users" /\ Listening) =>
       (Len(log) >= 1 /\ log[1].msg = "Database synced")

\* ------------------------------------------------------------------------ C6
\* C6 is about two handlers registered for one (method, path) pair.  No entry
\* point registers a pair twice, so no reachable state holds such a pair and
\* no formula over this model decides which of the two would answer.

\* ------------------------------------------------------------------------ C7
\* C7 as stated: GET / is answered 200 with the JSON body {status: "success",
\* message: "Welcome to the server"}
C7_AsStated ==
  \A r \in Answered :
    (variant \in DirectVariants /\ r.method = "GET" /\ r.path = <<>>) =>
      /\ r.resp.status = 200
      /\ r.resp.ctype = "application/json"
      /\ r.resp.body =
           [status |-> "success", message |-> "Welcome to the server"]

\* C7 amended: GET / is answered 200 with the text "Welcome to the server",
\* sent as text and not as a JSON envelope
C7_WelcomeIsText ==
  \A r \in Answered :
    (variant \in DirectVariants /\ r.method = "GET" /\ r.path = <<>>) =>
      /\ r.resp.status = 200
      /\ r.resp.ctype = "text/html"
      /\ r.resp.body = [text |-> "Welcome to the server"]

C7_Witness ==
  \E r \in Answered :
    /\ variant = "nocatch"
    /\ r.method = "GET"
    /\ r.path = <<>>
    /\ r.resp.status = 200

\* ------------------------------------------------------------------------ C8
PhaseSteps ==
  {<<"Idle", "Verifying">>, <<"Verifying", "Ready">>,
   <<"Verifying", "Aborted">>}

ConnSteps == {<<"unverified", "connected">>, <<"unverified", "failed">>}

\* C8: the startup sequence moves only Idle -> Verifying -> Ready or Aborted,
\* sync() is called at most once, Ready and Aborted are never left, and the
\* connection state moves only from unverified to connected or to failed
C8_SequencerSteps ==
  [][ /\ (Phase' # Phase => <<Phase, Phase'>> \in PhaseSteps)
      /\ (conn' # conn => <<conn, conn'>> \in ConnSteps)
      /\ syncAttempts' <= 1
      /\ (Phase' = "Verifying" /\ Phase # "Verifying") =>
           syncAttempts' = syncAttempts + 1
      /\ Phase' \in {"Ready", "Aborted"} => syncAttempts' = 1 ]_vars

C8_Witness ==
  Phase = "Aborted" /\ syncAttempts = 1 /\ conn = "failed" /\ pc = "aborted"

\* ------------------------------------------------------------------------ C9
\* C9 as stated: when GET /users/:id is answered, the answer is 200 with the
\* stored user if a user with that id exists at that moment, and 404 {error:
\* 'User not found'} if none does
C9_AsStated ==
  [][ \A r \in Reaching("sent") :
        (r.handler = "getUserById" /\ r.method = "GET") =>
          IF Exists(r.id)
          THEN r.resp.status = 200 /\ r.resp.body \in users
          ELSE /\ r.resp.status = 404
               /\ r.resp.body = [error |-> "User not found"] ]_vars

\* C9 amended: GET /users/:id answers from the table as it is when its lookup
\* runs, 200 with the row of that id or 404 {error: 'User not found'}; a GET
\* that arrives after a DELETE that removed the row was answered is answered
\* 404; DELETE is answered 204 whether or not the row existed, and leaves no
\* row with that id when its destroy runs
C9_GetAnswersFromLookup ==
  /\ [][ \A r \in Reaching("done") :
           /\ r.handler = "getUserById" =>
                IF Exists(r.id) THEN r.result \in users /\ r.result.id = r.id
                ELSE r.result = Null
           /\ r.handler = "deleteUser" =>
                /\ \A u \in users' : u.id # r.id
                /\ r.result.count = IF Exists(r.id) THEN 1 ELSE 0 ]_vars
  /\ [][ \A r \in BagToSet(inflight) :
           (r.stage = "done" /\ CopiesIn(r, inflight') < CopiesIn(r, inflight)) =>
             \E a \in Reaching("sent") :
               /\ a.method = r.method /\ a.path = r.path
               /\ r.handler = "getUserById" /\ r.method = "GET" =>
                    IF r.result = Null
                    THEN /\ a.resp.status = 404
                         /\ a.resp.body = [error |-> "User not found"]
                    ELSE a.resp.status = 200 /\ a.resp.body = r.result
               /\ r.handler = "deleteUser" =>
                    a.resp.status = 204 /\ a.resp.body = Empty ]_vars
  /\ [](\A r \in Answered :
          /\ (r.handler = "getUserById" /\ r.afterDelete) =>
               r.resp.status = 404
          /\ r.handler = "deleteUser" => r.resp.status = 204)

\* a GET that arrived after the DELETE of a created user was answered
C9_Witness ==
  \E r \in Answered :
    /\ variant = "users"
    /\ r.method = "GET"
    /\ IsUserPath(r.path)
    /\ r.afterDelete
    /\ r.id \in deleted
    /\ r.id < nextId
    /\ r.resp.status = 404

\* ----------------------------------------------------------------------- C10
\* C10: in the entry point that mounts `auth`, the mount throws before listen
\* is reached: the listener is never bound, port 3000 is never open and no
\* request is served
C10_AuthMountStopsStartup ==
  variant = "auth" =>
    /\ ~Listening
    /\ 3000 \notin ports
    /\ ~Served
    /\ inflight = EmptyBag
    /\ pc \in {"start", "root", "crashed"}

C10_Witness ==
  variant = "auth" /\ pc = "crashed" /\ Len(stack) = 1 /\ "auth" \notin Bindings

====
